---- MODULE Spec2Model ----
(***************************************************************************)
(* State-machine model of the treeview widget                              *)
(* (src/widgets/treeview/treeview.go, options.go) and of the tab manager   *)
(* (src/widgets/tab/tab_manager.go).                                       *)
(*                                                                         *)
(* Tasks: the host event loop ("main": New, Draw, Mouse, Keyboard, Next,   *)
(* Previous, Select, StopSpinnerTicker), the spinner goroutine             *)
(* (runSpinner) and one goroutine per leaf activation (handleNodeClick).   *)
(* sync.Mutex is not reentrant: a task that locks a mutex it already holds *)
(* blocks for ever: its next step waits for a mutex that is never free.    *)
(*                                                                         *)
(* Time is counted in units of 50 ms (the debounce window of 100 ms is two *)
(* units); only the differences                                            *)
(* now.Sub(lastClickTime) and now.Sub(lastKeyTime) are kept, capped at the *)
(* debounce window, because the code reads nothing else of the clock.      *)
(* Every rune (icons included) has display width 1; the icons and the      *)
(* ellipsis are three bytes of UTF-8 each, every other rune is one.        *)
(***************************************************************************)
EXTENDS Integers, Sequences, FiniteSets, TLC

\* ------------------------------------------------------------------ bounds
MaxCanvasHeight == 2
MaxCanvasWidth == 5
MaxCallbacks == 2

\* ------------------------------------------------------- program constants
ScrollStep == 5
DebounceWindow == 2
DefaultIcons == 4
DefaultIndentation == 2

Nodes == 1..7
NoNode == 0

\* The result of a call that returns only an error: no string, and the error.
errorOnly(err) == << <<>>, err >>

Min(a, b) == IF a < b THEN a ELSE b
Max(a, b) == IF a > b THEN a ELSE b

\* ------------------------------------------------------------ the forests
Digit == <<"1", "2", "3", "4", "5", "6", "7">>

\* The labels of the example forests: "nd1" .. "nd7", a string being the
\* sequence of its runes.
DefaultLabels == [n \in Nodes |-> <<"n", "d", Digit[n]>>]

\* Forest 1: a leaf root with a callback, then a root (with an OnClick of
\* its own) holding a branch that holds one leaf without callback.
ForestMixed ==
  [ roots    |-> <<1, 2>>,
    children |-> [n \in Nodes |-> CASE n = 2 -> <<3>>
                                    [] n = 3 -> <<4>>
                                    [] OTHER -> <<>>],
    onClick  |-> {1, 2},
    label    |-> DefaultLabels ]

\* Forest 1 without any callback.
ForestNested == [ForestMixed EXCEPT !.onClick = {}]

\* Forest 2: no nodes at all.
ForestEmpty ==
  [ roots    |-> <<>>,
    children |-> [n \in Nodes |-> <<>>],
    onClick  |-> {},
    label    |-> DefaultLabels ]

\* Forest 3: seven leaf roots without callbacks, more rows than one wheel
\* step scrolls.
ForestFlat ==
  [ roots    |-> <<1, 2, 3, 4, 5, 6, 7>>,
    children |-> [n \in Nodes |-> <<>>],
    onClick  |-> {},
    label    |-> DefaultLabels ]

\* Forest 4: two roots with two children each, the first child of the first
\* root a branch itself.
ForestWide ==
  [ roots    |-> <<1, 5>>,
    children |-> [n \in Nodes |-> CASE n = 1 -> <<2, 3>>
                                    [] n = 2 -> <<4>>
                                    [] n = 5 -> <<6, 7>>
                                    [] OTHER -> <<>>],
    onClick  |-> {},
    label    |-> DefaultLabels ]

\* Forest 5: one root with three leaf children.
ForestRoot ==
  [ roots    |-> <<1>>,
    children |-> [n \in Nodes |-> IF n = 1 THEN <<2, 3, 4>> ELSE <<>>],
    onClick  |-> {},
    label    |-> DefaultLabels ]

\* Forest 6: root "a" with the children "b", "b/c" and "d", "b" holding the
\* leaf "c": sibling labels differ, one label contains the separator.
ForestSlash ==
  [ roots    |-> <<1>>,
    children |-> [n \in Nodes |-> CASE n = 1 -> <<2, 3, 5>>
                                    [] n = 2 -> <<4>>
                                    [] OTHER -> <<>>],
    onClick  |-> {},
    label    |-> [n \in Nodes |-> CASE n = 1 -> <<"a">>
                                    [] n = 2 -> <<"b">>
                                    [] n = 3 -> <<"b", "/", "c">>
                                    [] n = 4 -> <<"c">>
                                    [] n = 5 -> <<"d">>
                                    [] OTHER -> DefaultLabels[n]] ]

\* The options New is called with: Nodes, WaitingIcons (their number; none
\* means no spinner goroutine is started) and Truncate.
Configs ==
  { [tree |-> ForestMixed, waitingIcons |-> DefaultIcons, truncate |-> FALSE],
    [tree |-> ForestEmpty, waitingIcons |-> DefaultIcons, truncate |-> FALSE],
    [tree |-> ForestNested, waitingIcons |-> 0,           truncate |-> TRUE],
    [tree |-> ForestFlat,  waitingIcons |-> 0,            truncate |-> FALSE] }

VARIABLES
  tree,               \* tv.opts.nodes with Children, OnClick and Level of
                      \* every node
  waitingIcons,       \* len(tv.waitingIcons)
  truncate,           \* tv.opts.truncate
  ExpandedState,      \* node.ExpandedState
  ShowSpinner,        \* node.ShowSpinner
  SpinnerIndex,       \* node.SpinnerIndex
  nodeMu,             \* node.mu: "free" or the task holding it
  tvMu,               \* tv.mu: "free" or the task holding it
  selectedNode,       \* tv.selectedNode (NoNode is nil)
  visibleNodes,       \* tv.visibleNodes
  scrollOffset,       \* tv.scrollOffset
  canvasWidth,        \* tv.canvasWidth
  canvasHeight,       \* tv.canvasHeight
  totalContentHeight, \* tv.totalContentHeight
  sinceLastClick,     \* now.Sub(tv.lastClickTime), capped at DebounceWindow
  sinceLastKey,       \* now.Sub(tv.lastKeyTime), capped at DebounceWindow
  mainPc,             \* where the host task is
  pending,            \* arguments of the call the host task is inside
  ret,                \* what the last completed public call returned:
                      \* << string result, error >>
  stopSpinner,        \* tv.stopSpinner: "open" or "closed" (the ticker is
                      \* stopped by the call that closes it)
  spinnerPc,          \* where the runSpinner goroutine is
  callbacks,          \* per node: activation goroutines by stage
  tabs,               \* tm.tabs
  activeIndex         \* tm.activeIndex

vars == << tree, waitingIcons, truncate, ExpandedState, ShowSpinner,
           SpinnerIndex, nodeMu, tvMu, selectedNode, visibleNodes,
           scrollOffset, canvasWidth, canvasHeight, totalContentHeight,
           sinceLastClick, sinceLastKey, mainPc, pending, ret,
           stopSpinner, spinnerPc, callbacks, tabs, activeIndex >>

config == << tree, waitingIcons, truncate >>
spinnerVars == << stopSpinner, spinnerPc >>
nodeVars == << ExpandedState, ShowSpinner, SpinnerIndex >>
viewVars == << selectedNode, visibleNodes, scrollOffset, canvasWidth,
               canvasHeight, totalContentHeight >>
clockVars == << sinceLastClick, sinceLastKey >>
tabVars == << tabs, activeIndex >>

\* --------------------------------------------------------------- flattening
RECURSIVE traverseList(_, _, _)
traverseList(t, list, exp) ==
  IF list = <<>> THEN <<>>
  ELSE <<Head(list)>>
       \o (IF exp[Head(list)]
             THEN traverseList(t, t.children[Head(list)], exp) ELSE <<>>)
       \o traverseList(t, Tail(list), exp)

\* getVisibleNodesList: pre-order walk that descends into expanded nodes.
getVisibleNodesList(t, exp) == traverseList(t, t.roots, exp)

\* A height that would count collapsed subtrees too.
RECURSIVE heightOfListAll(_, _, _)
heightOfListAll(t, list, exp) ==
  IF list = <<>> THEN 0
  ELSE 1 + heightOfListAll(t, t.children[Head(list)], exp)
         + heightOfListAll(t, Tail(list), exp)

RECURSIVE heightOfList(_, _, _)
heightOfList(t, list, exp) ==
  IF list = <<>> THEN 0
  ELSE 1 + (IF exp[Head(list)]
              THEN heightOfList(t, t.children[Head(list)], exp) ELSE 0)
         + heightOfList(t, Tail(list), exp)

\* calculateTotalHeight: sum of calculateHeight over the roots.
calculateTotalHeight(t, exp) == heightOfList(t, t.roots, exp)

\* The clamp inside updateVisibleNodes, with total = len(allVisible).
clampInUpdate(so, total, ch) ==
  IF so > total - ch
    THEN (IF total - ch < 0 THEN 0 ELSE total - ch)
    ELSE so

\* node.ID == tv.selectedNode.ID
sameID(a, b) == a # NoNode /\ b # NoNode /\ tree.ID[a] = tree.ID[b]

\* getSelectedNodeIndex: first index holding a node with the selected node's
\* ID, 0 when absent (the code's -1; sequences here start at 1, so index i is
\* the code's i-1).
getSelectedNodeIndex(vis, sel) ==
  IF \E i \in 1..Len(vis) : sameID(vis[i], sel)
    THEN CHOOSE i \in 1..Len(vis) :
           sameID(vis[i], sel) /\ \A j \in 1..(i - 1) : ~sameID(vis[j], sel)
    ELSE 0

\* The traversal inside updateVisibleNodes (it reads ExpandedState directly).
RECURSIVE traverse(_, _, _)
traverse(t, n, exp) ==
  LET RECURSIVE overChildren(_)
      overChildren(list) ==
        IF list = <<>> THEN <<>>
        ELSE traverse(t, Head(list), exp) \o overChildren(Tail(list))
  IN <<n>> \o (IF exp[n] THEN overChildren(t.children[n]) ELSE <<>>)

RECURSIVE allVisible(_, _, _)
allVisible(t, list, exp) ==
  IF list = <<>> THEN <<>>
  ELSE traverse(t, Head(list), exp) \o allVisible(t, Tail(list), exp)

\* -------------------------------------------------- labels and hit-testing
\* setParentsAndAssignIDs: Parent and Level of every attached node.
Parent(t, n) ==
  IF \E p \in Nodes : \E i \in 1..Len(t.children[p]) : t.children[p][i] = n
    THEN CHOOSE p \in Nodes :
           \E i \in 1..Len(t.children[p]) : t.children[p][i] = n
    ELSE NoNode

RECURSIVE levelOf(_, _)
levelOf(t, n) ==
  LET p == Parent(t, n) IN IF p = NoNode THEN 0 ELSE 1 + levelOf(t, p)

\* generateNodeID: the label alone under an empty path, else path/label.
generateNodeID(path, label) ==
  IF path = <<>> THEN label ELSE path \o <<"/">> \o label

\* The ID setParentsAndAssignIDs gives node n: built from its parent's ID.
RECURSIVE idOf(_, _)
idOf(t, n) ==
  LET p == Parent(t, n)
  IN generateNodeID(IF p = NoNode THEN <<>> ELSE idOf(t, p), t.label[n])

\* The forest as New keeps it: every node carries its Label, Level and ID.
setParentsAndAssignIDs(t) ==
  [ roots    |-> t.roots,
    children |-> t.children,
    onClick  |-> t.onClick,
    Label    |-> t.label,
    Level    |-> [n \in Nodes |-> levelOf(t, n)],
    ID       |-> [n \in Nodes |-> idOf(t, n)] ]

\* node.Level
Level(t, n) == t.Level[n]

\* node.Label
Label(n) == tree.Label[n]
Ellipsis == "~"

\* runewidth.StringWidth, every rune one cell wide.
StringWidth(s) == Len(s)

\* truncateString: s if it fits, else the longest prefix that leaves room
\* for the ellipsis, followed by the ellipsis.
RECURSIVE truncateLoop(_, _, _)
truncateLoop(s, acc, maxWidth) ==
  IF s = <<>> \/ StringWidth(acc) + 1 + StringWidth(<<Ellipsis>>) > maxWidth
    THEN acc
    ELSE truncateLoop(Tail(s), Append(acc, Head(s)), maxWidth)

truncateString(s, maxWidth) ==
  IF StringWidth(s) <= maxWidth THEN s
  ELSE truncateLoop(s, <<>>, maxWidth) \o <<Ellipsis>>

\* getNodePrefix: spinner frame, expanded/collapsed icon or leaf icon.
getNodePrefix(n) ==
  IF ShowSpinner[n] /\ waitingIcons > 0 THEN "s"
  ELSE IF tree.children[n] # <<>>
         THEN (IF ExpandedState[n] THEN "v" ELSE ">")
         ELSE "-"

\* The text drawn and hit-tested for a node: "<prefix> <label>", truncated to
\* the width left of its indentation when truncation is on.
renderedLabel(n) ==
  LET label          == <<getNodePrefix(n), " ">> \o Label(n)
      availableWidth == canvasWidth - Level(tree, n) * DefaultIndentation
  IN IF truncate /\ StringWidth(label) > availableWidth
       THEN truncateString(label, availableWidth)
       ELSE label

\* findNodeByClick: the node on row y whose label spans column x, or NoNode.
findNodeByClick(x, y, vis) ==
  LET clickedIndex == y + scrollOffset
  IN IF clickedIndex < 0 \/ clickedIndex >= Len(vis) THEN NoNode
     ELSE LET node        == vis[clickedIndex + 1]
              labelStartX == Level(tree, node) * DefaultIndentation
              labelEndX   == labelStartX + StringWidth(renderedLabel(node))
          IN IF x >= labelStartX /\ x < labelEndX THEN node ELSE NoNode

\* --------------------------------------------------------------- rendering
\* Bytes of a rune in UTF-8: the icons and the ellipsis are outside ASCII.
ByteLen(r) == IF r \in {"s", "v", ">", "-", Ellipsis} THEN 3 ELSE 1

\* A drawing loop that would write every rune, past the right edge too.
RECURSIVE labelCellsUnclipped(_, _, _, _, _)
labelCellsUnclipped(s, x, y, dx, dy) ==
  IF s = <<>> THEN {}
  ELSE {<<x, y>>}
       \cup labelCellsUnclipped(Tail(s), x + ByteLen(Head(s)), y, dx, dy)

\* drawLabel's loop "for i, r := range truncatedLabel" from the rune whose
\* byte index put it in column x: the points it passes to SetCell.  It stops
\* at the first rune that reaches the right edge and draws nothing on a row
\* below the canvas.
RECURSIVE labelCells(_, _, _, _, _)
labelCells(s, x, y, dx, dy) ==
  IF s = <<>> \/ x >= dx \/ y >= dy THEN {}
  ELSE {<<x, y>>} \cup labelCells(Tail(s), x + ByteLen(Head(s)), y, dx, dy)

\* drawLabel: the label, cut to the width left of x, drawn from (x, y) on a
\* canvas of dx by dy cells.
drawLabel(label, x, y, dx, dy) ==
  LET displayWidth == IF x + StringWidth(label) > dx
                        THEN dx - x ELSE StringWidth(label)
  IN labelCells(truncateString(label, displayWidth), x, y, dx, dy)

\* A slice that would begin one node late.
startOneLate == scrollOffset + 1


\* Draw's slice of the cache: visibleNodes[start:end].
start == scrollOffset

end == IF scrollOffset + canvasHeight > Len(visibleNodes)
         THEN Len(visibleNodes) ELSE scrollOffset + canvasHeight

nodesToDraw == SubSeq(visibleNodes, start + 1, end)

\* drawNode: row y of the canvas gets the label of the y-th node of the
\* slice, indented by its level.
RECURSIVE drawNode(_, _, _, _)
drawNode(list, y, dx, dy) ==
  IF list = <<>> THEN {}
  ELSE drawLabel(renderedLabel(Head(list)),
                 Level(tree, Head(list)) * DefaultIndentation, y, dx, dy)
       \cup drawNode(Tail(list), y + 1, dx, dy)

\* drawScrollUp and drawScrollDown: one cell each, in the first column.
drawScrollUp == { <<0, 0>> }
drawScrollDown(dy) == { <<0, dy - 1>> }

\* A Draw that would clear the canvas before looking at its size.
ClearCalledFirst == TRUE

\* What the Draw that has just stored canvasWidth, canvasHeight, the cache
\* and scrollOffset has issued to the canvas.  Clear: not when it returned
\* "canvas too small".
ClearCalled == ~(canvasWidth <= 0 \/ canvasHeight <= 0)

\* SetCell: no point when it returned "canvas too small", else the points
\* of the rows and of the scroll indicators.
SetCellPoints ==
  IF canvasWidth <= 0 \/ canvasHeight <= 0 THEN {}
  ELSE drawNode(nodesToDraw, 0, canvasWidth, canvasHeight)
       \cup (IF scrollOffset > 0 THEN drawScrollUp ELSE {})
       \cup (IF scrollOffset + canvasHeight < Len(visibleNodes)
               THEN drawScrollDown(canvasHeight) ELSE {})

\* ------------------------------------------------------------------- Init
\* A New that would leave the roots collapsed.
InitExpandedNone(t) == [n \in Nodes |-> FALSE]

\* setInitialExpandedState(tv, true): the roots are expanded.
InitExpanded(t) == [n \in Nodes |-> \E i \in 1..Len(t.roots) : t.roots[i] = n]

\* NewTabManager: no tabs, active index 0.
NewTabManager ==
  /\ tabs = <<>>
  /\ activeIndex = 0

\* The state New returns for options c: roots expanded, every other node
\* collapsed, the first visible node selected, the cache of visible nodes
\* still empty.
New(c) ==
  /\ tree = setParentsAndAssignIDs(c.tree)
  /\ waitingIcons = c.waitingIcons
  /\ truncate = c.truncate
  /\ ExpandedState = InitExpanded(tree)
  /\ ShowSpinner = [n \in Nodes |-> FALSE]
  /\ SpinnerIndex = [n \in Nodes |-> 0]
  /\ nodeMu = [n \in Nodes |-> "free"]
  /\ tvMu = "free"
  /\ selectedNode =
       (IF getVisibleNodesList(tree, InitExpanded(tree)) = <<>> THEN NoNode
        ELSE Head(getVisibleNodesList(tree, InitExpanded(tree))))
  /\ visibleNodes = <<>>
  /\ scrollOffset = 0
  /\ canvasWidth = 0
  /\ canvasHeight = 0
  /\ totalContentHeight = calculateTotalHeight(tree, InitExpanded(tree))
  /\ sinceLastClick = DebounceWindow
  /\ sinceLastKey = DebounceWindow
  /\ mainPc = "idle"
  /\ pending = <<>>
  /\ ret = errorOnly("nil")
  /\ stopSpinner = "open"
  /\ spinnerPc = IF waitingIcons > 0 THEN "select" ELSE "none"
  /\ callbacks = [n \in Nodes |-> [running |-> 0, returned |-> 0]]

Init == NewTabManager /\ \E c \in Configs : New(c)

\* The host task is between two public calls and the process has not crashed.
HostIdle == mainPc = "idle"

\* ------------------------------------------------------------------- Draw
\* The canvas areas Draw is called with: an empty one and full-width ones.
CanvasSizes == {<<0, 0>>} \cup {<<MaxCanvasWidth, h>> : h \in 1..MaxCanvasHeight}

Draw(w, h) ==
  /\ HostIdle
  /\ tvMu = "free"
  /\ LET vis   == allVisible(tree, tree.roots, ExpandedState)
         total == Len(vis)
         so1   == clampInUpdate(scrollOffset, total, canvasHeight)
         maxSo == Max(total - h, 0)
         so2   == IF so1 > maxSo THEN maxSo ELSE IF so1 < 0 THEN 0 ELSE so1
     IN /\ visibleNodes' = vis
        /\ totalContentHeight' = total
        /\ canvasWidth' = w
        /\ canvasHeight' = h
        /\ IF w <= 0 \/ h <= 0
             THEN scrollOffset' = so1 /\ ret' = errorOnly("canvas too small")
             ELSE /\ scrollOffset' = so2
                  \* drawNode reads every drawn node's spinner flag under
                  \* the node's mutex
                  /\ \A k \in 1..Len(nodesToDraw') :
                        nodeMu[nodesToDraw'[k]] = "free"
                  /\ ret' = errorOnly("nil")
  /\ UNCHANGED << config, tabVars, nodeVars, nodeMu, tvMu, selectedNode, clockVars,
                  mainPc, pending, spinnerVars, callbacks >>

\* ------------------------------------------------------------------ Mouse
InFlight(n) == callbacks[n].running + callbacks[n].returned

RECURSIVE SumInFlight(_)
SumInFlight(S) ==
  IF S = {} THEN 0
  ELSE LET n == CHOOSE m \in S : TRUE IN InFlight(n) + SumInFlight(S \ {n})

IsCallbackLeaf(n) == n # NoNode /\ tree.children[n] = <<>> /\ n \in tree.onClick

\* A debounce test that would also suppress an event arriving exactly one
\* window after the last accepted one.
withinDebounceInclusive(since) == since <= DebounceWindow

\* now.Sub(last) < 100*time.Millisecond: the event is a duplicate.
withinDebounce(since) == since < DebounceWindow

\* A Mouse that would let a release through to the left-press debounce.
MouseReleaseRestartsWindow ==
  /\ HostIdle
  /\ tvMu = "free"
  /\ sinceLastClick' = 0
  /\ ret' = errorOnly("nil")
  /\ UNCHANGED << config, tabVars, nodeVars, nodeMu, tvMu, viewVars, sinceLastKey,
                  mainPc, pending, spinnerVars, callbacks >>

\* Mouse with ButtonRelease returns at once.
MouseRelease ==
  /\ HostIdle
  /\ ret' = errorOnly("nil")
  /\ UNCHANGED << config, tabVars, nodeVars, nodeMu, tvMu, viewVars, clockVars,
                  mainPc, pending, spinnerVars, callbacks >>

\* Mouse with ButtonLeft, up to handleNodeClick's tv.mu.Lock(): the debounce
\* test and the update of lastClickTime under tv.mu, then handleMouseClick,
\* which reads the cached visibleNodes and writes selectedNode without
\* holding tv.mu (findNodeByClick reads the row's spinner flag under the
\* node's mutex).
MouseLeft(x, y) ==
  /\ HostIdle
  /\ tvMu = "free"
  /\ LET clickedIndex == y + scrollOffset
         clickedNode  == findNodeByClick(x, y, visibleNodes)
     IN IF withinDebounce(sinceLastClick)
          THEN \* ignored duplicate click
               /\ ret' = errorOnly("nil")
               /\ UNCHANGED << sinceLastClick, selectedNode, mainPc, pending >>
          ELSE /\ sinceLastClick' = 0
               /\ (clickedIndex >= 0 /\ clickedIndex < Len(visibleNodes))
                     => nodeMu[visibleNodes[clickedIndex + 1]] = "free"
               /\ IsCallbackLeaf(clickedNode)
                     => SumInFlight(Nodes) < MaxCallbacks
               /\ IF clickedNode # NoNode
                    THEN /\ selectedNode' = clickedNode
                         /\ mainPc' = "handleNodeClick"
                         /\ pending' = <<clickedNode>>
                         /\ UNCHANGED ret
                    ELSE /\ ret' = errorOnly("nil")
                         /\ UNCHANGED << selectedNode, mainPc, pending >>
  /\ UNCHANGED << config, tabVars, nodeVars, nodeMu, tvMu, visibleNodes, scrollOffset,
                  canvasWidth, canvasHeight, totalContentHeight, sinceLastKey,
                  spinnerVars, callbacks >>

\* An activation that could only collapse.
collapseOnly(exp, n) == [exp EXCEPT ![n] = FALSE]

\* What handleNodeClick does to a node with children: flip ExpandedState.
toggleExpanded(exp, n) == [exp EXCEPT ![n] = ~exp[n]]

\* What handleNodeClick does to a leaf with a callback: SetShowSpinner(true),
\* then start the goroutine that runs OnClick.
startCallback(cbs, n) == [cbs EXCEPT ![n].running = @ + 1]

\* A handleNodeClick that would flip the flag of a node without children too.
handleNodeClickFlipsLeaf ==
  /\ mainPc = "handleNodeClick"
  /\ tvMu = "free"
  /\ nodeMu[pending[1]] = "free"
  /\ ExpandedState' = toggleExpanded(ExpandedState, pending[1])
  /\ totalContentHeight' =
       calculateTotalHeight(tree, toggleExpanded(ExpandedState, pending[1]))
  /\ mainPc' = "idle"
  /\ pending' = <<>>
  /\ ret' = errorOnly("nil")
  /\ UNCHANGED << config, tabVars, ShowSpinner, SpinnerIndex, callbacks, nodeMu, tvMu,
                  selectedNode, visibleNodes, scrollOffset, canvasWidth,
                  canvasHeight, clockVars, spinnerVars >>

\* handleNodeClick, entered from handleMouseClick (tv.mu free) or from
\* Keyboard (tv.mu held by the caller, so the Lock below never succeeds).
handleNodeClick ==
  /\ mainPc = "handleNodeClick"
  /\ tvMu = "free"
  /\ LET node == pending[1]
     IN /\ nodeMu[node] = "free"
        /\ IF tree.children[node] # <<>>
             THEN /\ ExpandedState' = toggleExpanded(ExpandedState, node)
                  /\ totalContentHeight' =
                       calculateTotalHeight(tree, toggleExpanded(ExpandedState, node))
                  /\ UNCHANGED << ShowSpinner, SpinnerIndex, callbacks >>
             ELSE IF node \in tree.onClick
               THEN /\ ShowSpinner' = [ShowSpinner EXCEPT ![node] = TRUE]
                    /\ callbacks' = startCallback(callbacks, node)
                    /\ UNCHANGED << ExpandedState, SpinnerIndex,
                                    totalContentHeight >>
               ELSE UNCHANGED << nodeVars, callbacks, totalContentHeight >>
  /\ mainPc' = "idle"
  /\ pending' = <<>>
  /\ ret' = errorOnly("nil")
  /\ UNCHANGED << config, tabVars, nodeMu, tvMu, selectedNode, visibleNodes,
                  scrollOffset, canvasWidth, canvasHeight, clockVars,
                  spinnerVars >>

\* A wheel-up that would step back without stopping at 0.
MouseWheelUpBelowZero ==
  /\ HostIdle
  /\ tvMu = "free"
  /\ LET vis == allVisible(tree, tree.roots, ExpandedState)
     IN /\ scrollOffset' =
             clampInUpdate(scrollOffset - ScrollStep, Len(vis), canvasHeight)
        /\ totalContentHeight' = Len(vis)
        /\ visibleNodes' = vis
  /\ ret' = errorOnly("nil")
  /\ UNCHANGED << config, tabVars, nodeVars, nodeMu, tvMu, selectedNode, canvasWidth,
                  canvasHeight, clockVars, mainPc, pending, spinnerVars,
                  callbacks >>

\* Mouse with ButtonWheelUp.
MouseWheelUp ==
  /\ HostIdle
  /\ tvMu = "free"
  /\ LET so1 == IF scrollOffset >= ScrollStep
                  THEN scrollOffset - ScrollStep ELSE 0
         vis == allVisible(tree, tree.roots, ExpandedState)
     IN /\ scrollOffset' = clampInUpdate(so1, Len(vis), canvasHeight)
        /\ totalContentHeight' = Len(vis)
        /\ visibleNodes' = vis
  /\ ret' = errorOnly("nil")
  /\ UNCHANGED << config, tabVars, nodeVars, nodeMu, tvMu, selectedNode, canvasWidth,
                  canvasHeight, clockVars, mainPc, pending, spinnerVars,
                  callbacks >>

\* Mouse with ButtonWheelDown.
MouseWheelDown ==
  /\ HostIdle
  /\ tvMu = "free"
  /\ LET maxOffset == Max(totalContentHeight - canvasHeight, 0)
         so1 == IF scrollOffset + ScrollStep <= maxOffset
                  THEN scrollOffset + ScrollStep ELSE maxOffset
         vis == allVisible(tree, tree.roots, ExpandedState)
     IN /\ scrollOffset' = clampInUpdate(so1, Len(vis), canvasHeight)
        /\ totalContentHeight' = Len(vis)
        /\ visibleNodes' = vis
  /\ ret' = errorOnly("nil")
  /\ UNCHANGED << config, tabVars, nodeVars, nodeMu, tvMu, selectedNode, canvasWidth,
                  canvasHeight, clockVars, mainPc, pending, spinnerVars,
                  callbacks >>

\* --------------------------------------------------------------- Keyboard
Keys == {"ArrowDown", "ArrowUp", "Enter", "Space", "Other"}

\* Keyboard holds tv.mu from entry to return.  For Enter and Space it calls
\* handleNodeClick while still holding tv.mu.
Keyboard(key) ==
  /\ HostIdle
  /\ tvMu = "free"
  /\ LET n      == Len(visibleNodes)
         found  == getSelectedNodeIndex(visibleNodes, selectedNode)
         sel0   == IF found = 0 /\ n > 0 THEN visibleNodes[1] ELSE selectedNode
         idx    == IF found = 0 /\ n > 0 THEN 1 ELSE found
         isAct  == key \in {"Enter", "Space"}
     IN IF found = 0 /\ n = 0
          THEN \* no visible nodes to select
               /\ ret' = errorOnly("nil")
               /\ UNCHANGED << selectedNode, scrollOffset, sinceLastKey,
                               mainPc, pending, tvMu >>
          ELSE IF isAct /\ withinDebounce(sinceLastKey)
          THEN \* ignored rapid key press
               /\ selectedNode' = sel0
               /\ ret' = errorOnly("nil")
               /\ UNCHANGED << scrollOffset, sinceLastKey, mainPc, pending,
                               tvMu >>
          ELSE IF key = "ArrowDown"
          THEN /\ IF idx < n
                    THEN /\ selectedNode' = visibleNodes[idx + 1]
                         /\ scrollOffset' =
                              IF idx >= scrollOffset + canvasHeight
                                THEN idx - canvasHeight + 1 ELSE scrollOffset
                    ELSE /\ selectedNode' = sel0
                         /\ UNCHANGED scrollOffset
               /\ ret' = errorOnly("nil")
               /\ UNCHANGED << sinceLastKey, mainPc, pending, tvMu >>
          ELSE IF key = "ArrowUp"
          THEN /\ IF idx > 1
                    THEN /\ selectedNode' = visibleNodes[idx - 1]
                         /\ scrollOffset' =
                              IF idx - 2 < scrollOffset
                                THEN idx - 2 ELSE scrollOffset
                    ELSE /\ selectedNode' = sel0
                         /\ UNCHANGED scrollOffset
               /\ ret' = errorOnly("nil")
               /\ UNCHANGED << sinceLastKey, mainPc, pending, tvMu >>
          ELSE IF isAct
          THEN \* handleNodeClick(node) is entered with tv.mu held
               /\ sinceLastKey' = 0
               /\ selectedNode' = visibleNodes[idx]
               /\ mainPc' = "handleNodeClick"
               /\ pending' = <<visibleNodes[idx]>>
               /\ tvMu' = "main"
               /\ UNCHANGED << scrollOffset, ret >>
          ELSE /\ selectedNode' = sel0
               /\ ret' = errorOnly("nil")
               /\ UNCHANGED << scrollOffset, sinceLastKey, mainPc, pending,
                               tvMu >>
  /\ UNCHANGED << config, tabVars, nodeVars, nodeMu, visibleNodes, canvasWidth,
                  canvasHeight, totalContentHeight, sinceLastClick,
                  spinnerVars, callbacks >>

\* ------------------------------------------------ Next, Previous, Select
NextNode ==
  /\ HostIdle
  /\ tvMu = "free"
  /\ LET idx == getSelectedNodeIndex(visibleNodes, selectedNode)
     IN IF idx >= 1 /\ idx < Len(visibleNodes)
          THEN /\ selectedNode' = visibleNodes[idx + 1]
               /\ scrollOffset' = IF idx >= scrollOffset + canvasHeight
                                    THEN idx - canvasHeight + 1
                                    ELSE scrollOffset
          ELSE UNCHANGED << selectedNode, scrollOffset >>
  /\ ret' = errorOnly("nil")
  /\ UNCHANGED << config, tabVars, nodeVars, nodeMu, tvMu, visibleNodes, canvasWidth,
                  canvasHeight, totalContentHeight, clockVars, mainPc,
                  pending, spinnerVars, callbacks >>

PreviousNode ==
  /\ HostIdle
  /\ tvMu = "free"
  /\ LET idx == getSelectedNodeIndex(visibleNodes, selectedNode)
     IN IF idx > 1
          THEN /\ selectedNode' = visibleNodes[idx - 1]
               /\ scrollOffset' = IF idx - 2 < scrollOffset
                                    THEN idx - 2 ELSE scrollOffset
          ELSE UNCHANGED << selectedNode, scrollOffset >>
  /\ ret' = errorOnly("nil")
  /\ UNCHANGED << config, tabVars, nodeVars, nodeMu, tvMu, visibleNodes, canvasWidth,
                  canvasHeight, totalContentHeight, clockVars, mainPc,
                  pending, spinnerVars, callbacks >>

\* A Select that would report an empty selection as ("", nil).
SelectWithoutError ==
  /\ HostIdle
  /\ tvMu = "free"
  /\ ret' = IF selectedNode # NoNode
              THEN << Label(selectedNode), "nil" >>
              ELSE errorOnly("nil")
  /\ UNCHANGED << config, tabVars, nodeVars, nodeMu, tvMu, viewVars, clockVars,
                  mainPc, pending, spinnerVars, callbacks >>

\* Select returns (tv.selectedNode.Label, nil), or ("", error) with nothing
\* selected.
Select ==
  /\ HostIdle
  /\ tvMu = "free"
  /\ ret' = IF selectedNode # NoNode
              THEN << Label(selectedNode), "nil" >>
              ELSE << <<>>, "no option selected" >>
  /\ UNCHANGED << config, tabVars, nodeVars, nodeMu, tvMu, viewVars, clockVars,
                  mainPc, pending, spinnerVars, callbacks >>

\* ------------------------------------------------------ StopSpinnerTicker
\* Stops the ticker and closes tv.stopSpinner; closing a closed channel
\* panics.  It takes no mutex.
StopSpinnerTicker ==
  /\ HostIdle
  /\ IF waitingIcons > 0
       THEN IF stopSpinner = "closed"
              THEN mainPc' = "panic" /\ UNCHANGED << stopSpinner, ret >>
              ELSE stopSpinner' = "closed" /\ ret' = errorOnly("nil") /\ UNCHANGED mainPc
       ELSE ret' = errorOnly("nil") /\ UNCHANGED << stopSpinner, mainPc >>
  /\ UNCHANGED << config, tabVars, nodeVars, nodeMu, tvMu, viewVars, clockVars,
                  pending, spinnerPc, callbacks >>

\* The process runs until a panic ends it.
Running == mainPc # "panic"

\* ------------------------------------------------------------------ clock
\* 50 ms pass.  The two ages are read by Mouse and by Keyboard only, and only
\* under tv.mu; they are kept as long as tv.mu can still be taken (a task
\* that holds it here holds it for ever).
AdvanceTime ==
  /\ Running
  /\ tvMu = "free"
  /\ sinceLastClick < DebounceWindow \/ sinceLastKey < DebounceWindow
  /\ sinceLastClick' = Min(sinceLastClick + 1, DebounceWindow)
  /\ sinceLastKey' = Min(sinceLastKey + 1, DebounceWindow)
  /\ UNCHANGED << config, tabVars, nodeVars, nodeMu, tvMu, viewVars, mainPc, pending,
                  ret, spinnerVars, callbacks >>

\* ------------------------------------------------------------- runSpinner
\* select: case <-tv.spinnerTicker.C, with the body of the case: tv.mu.Lock(),
\* getVisibleNodesList(), then for the first node node.mu.Lock() followed by
\* node.GetShowSpinner(), which locks node.mu again.  With no visible node
\* the loop body never runs and the tick completes.
SpinnerTick ==
  /\ Running
  /\ spinnerPc = "select"
  /\ stopSpinner = "open"
  /\ LET list == getVisibleNodesList(tree, ExpandedState)
     IN IF tvMu # "free"
          THEN /\ spinnerPc' = "tv.mu.Lock"
               /\ UNCHANGED << tvMu, nodeMu >>
          ELSE IF list = <<>>
          THEN UNCHANGED << spinnerPc, tvMu, nodeMu >>
          ELSE /\ tvMu' = "spinner"
               /\ nodeMu' = [nodeMu EXCEPT ![list[1]] = "spinner"]
               /\ spinnerPc' = "node.GetShowSpinner"
  /\ UNCHANGED << config, tabVars, nodeVars, viewVars, clockVars, mainPc, pending, ret,
                  stopSpinner, callbacks >>

\* select: case <-tv.stopSpinner
SpinnerReceiveStop ==
  /\ Running
  /\ spinnerPc = "select"
  /\ stopSpinner = "closed"
  /\ spinnerPc' = "returned"
  /\ UNCHANGED << config, tabVars, nodeVars, nodeMu, tvMu, viewVars, clockVars, mainPc,
                  pending, ret, stopSpinner, callbacks >>

\* ------------------------------------------------- activation goroutines
\* A goroutine that would end on the error, before n.SetShowSpinner(false).
afterOnClickExitOnError(cbs, n, err) ==
  IF err THEN [cbs EXCEPT ![n].running = @ - 1]
         ELSE [cbs EXCEPT ![n].running = @ - 1, ![n].returned = @ + 1]

\* The goroutine after "if err := n.OnClick(); err != nil { log }": the error
\* is logged and dropped (err is scoped to the if statement), and the
\* goroutine goes on to n.SetShowSpinner(false) either way.
afterOnClick(cbs, n, err) ==
  [cbs EXCEPT ![n].running = @ - 1, ![n].returned = @ + 1]

\* n.OnClick() returns nil, or an error (err), which the goroutine logs.
CallbackReturn(n, err) ==
  /\ Running
  /\ callbacks[n].running > 0
  /\ callbacks' = afterOnClick(callbacks, n, err)
  /\ UNCHANGED << config, tabVars, nodeVars, nodeMu, tvMu, viewVars, clockVars, mainPc,
                  pending, ret, spinnerVars >>

\* The rest of the goroutine: n.SetShowSpinner(false) is node.mu.Lock(),
\* node.mu.Unlock(), then the two writes; the goroutine ends.
CallbackFinish(n) ==
  /\ Running
  /\ callbacks[n].returned > 0
  /\ nodeMu[n] = "free"
  /\ ShowSpinner' = [ShowSpinner EXCEPT ![n] = FALSE]
  /\ SpinnerIndex' = [SpinnerIndex EXCEPT ![n] = 0]
  /\ callbacks' = [callbacks EXCEPT ![n].returned = @ - 1]
  /\ UNCHANGED << config, tabVars, ExpandedState, nodeMu, tvMu, viewVars, clockVars,
                  mainPc, pending, ret, spinnerVars >>

\* ------------------------------------------------------- mutex discipline
\* A method as the sequence of its mutex operations and field accesses, in
\* program order: << "Lock" | "Unlock", mutex >> and
\* << "read" | "write", field >>.  A deferred Unlock comes last.
SetShowSpinner(value) ==
  << <<"Lock", "node.mu">>, <<"Unlock", "node.mu">>,
     <<"write", "ShowSpinner">> >>
  \o (IF value THEN <<>> ELSE << <<"write", "SpinnerIndex">> >>)

GetShowSpinner ==
  << <<"Lock", "node.mu">>, <<"read", "ShowSpinner">>,
     <<"Unlock", "node.mu">> >>

IncrementSpinner ==
  << <<"Lock", "node.mu">>, <<"read", "SpinnerIndex">>,
     <<"write", "SpinnerIndex">>, <<"Unlock", "node.mu">> >>

\* The body of runSpinner's loop for one node, as written (its second Lock
\* is the one that never returns).
runSpinnerBody(shown) ==
  << <<"Lock", "node.mu">> >> \o GetShowSpinner
  \o (IF shown THEN IncrementSpinner \o << <<"read", "SpinnerIndex">> >>
               ELSE <<>>)
  \o << <<"Unlock", "node.mu">> >>

\* tv.mu.Lock(); defer tv.mu.Unlock() around a body.
underTvMu(body) ==
  << <<"Lock", "tv.mu">> >> \o body \o << <<"Unlock", "tv.mu">> >>

\* The accesses to tv.scrollOffset, tv.selectedNode and tv.visibleNodes of
\* each operation, with its operations on tv.mu, in program order.
updateVisibleNodesAccesses ==
  << <<"read", "scrollOffset">>, <<"write", "scrollOffset">>,
     <<"write", "visibleNodes">> >>

handleNodeClickAccesses == underTvMu(<<>>)

\* handleMouseClick, findNodeByClick included (hit: a node was found).
handleMouseClickAccesses(hit) ==
  << <<"read", "visibleNodes">>, <<"read", "scrollOffset">> >>
  \o (IF hit THEN << <<"write", "selectedNode">> >> \o handleNodeClickAccesses
             ELSE <<>>)

\* Mouse with an accepted ButtonLeft: tv.mu around the position, tv.mu
\* around the debounce, then handleMouseClick.
MouseLeftAccesses(hit) ==
  underTvMu(<<>>) \o underTvMu(<<>>) \o handleMouseClickAccesses(hit)

MouseWheelAccesses ==
  underTvMu(<<>>)
  \o underTvMu(<< <<"read", "scrollOffset">>, <<"write", "scrollOffset">> >>
               \o updateVisibleNodesAccesses)

KeyboardAccesses ==
  underTvMu(<< <<"read", "visibleNodes">>, <<"read", "selectedNode">>,
               <<"write", "selectedNode">>, <<"read", "scrollOffset">>,
               <<"write", "scrollOffset">> >>
            \o handleNodeClickAccesses)

\* Next, and Previous alike.
NextAccesses ==
  underTvMu(<< <<"read", "visibleNodes">>, <<"read", "selectedNode">>,
               <<"write", "selectedNode">>, <<"read", "scrollOffset">>,
               <<"write", "scrollOffset">> >>)

SelectAccesses == underTvMu(<< <<"read", "selectedNode">> >>)

DrawAccesses ==
  underTvMu(updateVisibleNodesAccesses
            \o << <<"read", "visibleNodes">>, <<"read", "scrollOffset">>,
                  <<"write", "scrollOffset">>, <<"read", "selectedNode">> >>)

\* runSpinner's tick takes tv.mu and walks the tree; it touches none of the
\* three fields.
runSpinnerAccesses == underTvMu(<<>>)

Next ==
  \/ \E size \in CanvasSizes : Draw(size[1], size[2])
  \/ MouseRelease
  \/ \E x \in 0..(MaxCanvasWidth - 1), y \in 0..(MaxCanvasHeight - 1) :
        MouseLeft(x, y)
  \/ handleNodeClick
  \/ MouseWheelUp
  \/ MouseWheelDown
  \/ \E key \in Keys : Keyboard(key)
  \/ NextNode
  \/ PreviousNode
  \/ Select
  \/ StopSpinnerTicker
  \/ AdvanceTime
  \/ SpinnerTick
  \/ SpinnerReceiveStop
  \/ \E n \in Nodes, err \in BOOLEAN : CallbackReturn(n, err)
  \/ \E n \in Nodes : CallbackFinish(n)

Spec == Init /\ [][Next]_vars

\* Scheduling: a goroutine that can run does run.  That holds for the host
\* task inside handleNodeClick, for the spinner goroutine and for the tail of
\* an activation goroutine; it does not hold for input events, for the clock
\* or for the return of a user callback.
Fairness ==
  /\ WF_vars(handleNodeClick)
  /\ WF_vars(SpinnerTick)
  /\ WF_vars(SpinnerReceiveStop)
  /\ \A n \in Nodes : WF_vars(CallbackFinish(n))

FairSpec == Spec /\ Fairness

\* The host alone, before the spinner's first tick and with callbacks that
\* do not return, scrolling, clicking and drawing on canvases of every width
\* and height.
AllCanvasSizes == (0..MaxCanvasWidth) \X (0..MaxCanvasHeight)

RenderNext ==
  \/ \E size \in AllCanvasSizes : Draw(size[1], size[2])
  \/ \E x \in 0..(MaxCanvasWidth - 1), y \in 0..(MaxCanvasHeight - 1) :
        MouseLeft(x, y)
  \/ handleNodeClick
  \/ MouseWheelUp
  \/ MouseWheelDown
  \/ AdvanceTime

RenderSpec == Init /\ [][RenderNext]_vars

\* ------------------------------------------------- the flattening methods
\* The methods that flatten the forest and clamp scrollOffset, driven as the
\* package's tests drive them: the tests write node.ExpandedState,
\* tv.canvasHeight and tv.scrollOffset and call the methods.
MaxScrollInput == 9

UnitConfigs ==
  { [tree |-> f, waitingIcons |-> 0, truncate |-> FALSE] :
      f \in {ForestNested, ForestEmpty, ForestFlat, ForestWide, ForestRoot,
             ForestSlash} }

UnitInit == NewTabManager /\ \E c \in UnitConfigs : New(c)

\* node.ExpandedState = value, for a node with children.
SetExpandedState(n, value) ==
  /\ tree.children[n] # <<>>
  /\ ExpandedState' = [ExpandedState EXCEPT ![n] = value]
  /\ UNCHANGED << config, tabVars, ShowSpinner, SpinnerIndex, nodeMu, tvMu, viewVars,
                  clockVars, mainPc, pending, ret, spinnerVars, callbacks >>

\* tv.canvasHeight = h
SetCanvasHeight(h) ==
  /\ canvasHeight' = h
  /\ UNCHANGED << config, tabVars, nodeVars, nodeMu, tvMu, selectedNode, visibleNodes,
                  scrollOffset, canvasWidth, totalContentHeight, clockVars,
                  mainPc, pending, ret, spinnerVars, callbacks >>

\* tv.scrollOffset = s
SetScrollOffset(s) ==
  /\ scrollOffset' = s
  /\ UNCHANGED << config, tabVars, nodeVars, nodeMu, tvMu, selectedNode, visibleNodes,
                  canvasWidth, canvasHeight, totalContentHeight, clockVars,
                  mainPc, pending, ret, spinnerVars, callbacks >>

\* tv.updateVisibleNodes()
updateVisibleNodes ==
  /\ LET vis == allVisible(tree, tree.roots, ExpandedState)
     IN /\ totalContentHeight' = Len(vis)
        /\ scrollOffset' = clampInUpdate(scrollOffset, Len(vis), canvasHeight)
        /\ visibleNodes' = vis
  /\ UNCHANGED << config, tabVars, nodeVars, nodeMu, tvMu, selectedNode, canvasWidth,
                  canvasHeight, clockVars, mainPc, pending, ret, spinnerVars,
                  callbacks >>

\* tv.updateTotalHeight()
updateTotalHeight ==
  /\ totalContentHeight' = calculateTotalHeight(tree, ExpandedState)
  /\ UNCHANGED << config, tabVars, nodeVars, nodeMu, tvMu, selectedNode, visibleNodes,
                  scrollOffset, canvasWidth, canvasHeight, clockVars, mainPc,
                  pending, ret, spinnerVars, callbacks >>

UnitNext ==
  \/ \E n \in Nodes, value \in BOOLEAN : SetExpandedState(n, value)
  \/ \E h \in 0..MaxCanvasHeight : SetCanvasHeight(h)
  \/ \E s \in (0 - MaxScrollInput)..MaxScrollInput : SetScrollOffset(s)
  \/ updateVisibleNodes
  \/ updateTotalHeight

UnitSpec == UnitInit /\ [][UnitNext]_vars

\* --------------------------------------------- walking the selection down
\* Next() on a widget whose flags are written and whose cache is refreshed
\* in between.
WalkNext ==
  \/ \E n \in Nodes, value \in BOOLEAN : SetExpandedState(n, value)
  \/ updateVisibleNodes
  \/ NextNode

WalkSpec == UnitInit /\ [][WalkNext]_vars

\* ---------------------------------------------------------- tab manager
MaxTabs == 4

\* The tabs the host can add (a tab may be added more than once).
TabPool == {"tab1", "tab2", "tab3"}

\* GetActiveTab's nil.
NoTab == "nil"

\* AddTab: append.
AddTab(tab) ==
  /\ Len(tabs) < MaxTabs
  /\ tabs' = Append(tabs, tab)
  /\ UNCHANGED << config, activeIndex, nodeVars, nodeMu, tvMu, viewVars,
                  clockVars, mainPc, pending, ret, spinnerVars, callbacks >>

\* A NextTab that would count on past the last tab.
NextTabNoWrap ==
  /\ activeIndex' = IF Len(tabs) = 0 THEN activeIndex ELSE activeIndex + 1
  /\ UNCHANGED << config, tabs, nodeVars, nodeMu, tvMu, viewVars,
                  clockVars, mainPc, pending, ret, spinnerVars, callbacks >>

\* NextTab: one tab on, from the last to the first; nothing without tabs.
NextTab ==
  /\ activeIndex' = IF Len(tabs) = 0 THEN activeIndex
                    ELSE (activeIndex + 1) % Len(tabs)
  /\ UNCHANGED << config, tabs, nodeVars, nodeMu, tvMu, viewVars,
                  clockVars, mainPc, pending, ret, spinnerVars, callbacks >>

\* PreviousTab: one tab back, from the first to the last.
PreviousTab ==
  /\ activeIndex' = IF Len(tabs) = 0 THEN activeIndex
                    ELSE (activeIndex - 1 + Len(tabs)) % Len(tabs)
  /\ UNCHANGED << config, tabs, nodeVars, nodeMu, tvMu, viewVars,
                  clockVars, mainPc, pending, ret, spinnerVars, callbacks >>

\* SetActiveTab: the index if it names a tab, else no change.
SetActiveTab(index) ==
  /\ activeIndex' = IF index >= 0 /\ index < Len(tabs) THEN index
                    ELSE activeIndex
  /\ UNCHANGED << config, tabs, nodeVars, nodeMu, tvMu, viewVars,
                  clockVars, mainPc, pending, ret, spinnerVars, callbacks >>

\* GetActiveTab: nil without tabs, else tm.tabs[tm.activeIndex] (sequences
\* here start at 1).
GetActiveTab == IF Len(tabs) = 0 THEN NoTab ELSE tabs[activeIndex + 1]

\* The indices SetActiveTab is called with: the valid ones, -1 and two
\* beyond the end.
TabIndexInputs == (0 - 1)..(MaxTabs + 1)

TabInit ==
  /\ NewTabManager
  /\ New([tree |-> ForestEmpty, waitingIcons |-> 0, truncate |-> FALSE])

TabNext ==
  \/ \E tab \in TabPool : AddTab(tab)
  \/ NextTab
  \/ PreviousTab
  \/ \E index \in TabIndexInputs : SetActiveTab(index)

TabSpec == TabInit /\ [][TabNext]_vars

\* ================================================================ claims
\* Reference flattening: a node is listed, then, iff it is expanded, the
\* walks of its children in order.
RECURSIVE PreorderWalk(_, _, _)
PreorderWalk(t, list, exp) ==
  IF list = <<>> THEN <<>>
  ELSE LET n == Head(list)
       IN <<n>> \o (IF exp[n] THEN PreorderWalk(t, t.children[n], exp) ELSE <<>>)
               \o PreorderWalk(t, Tail(list), exp)

VisibleCount == Len(PreorderWalk(tree, tree.roots, ExpandedState))

\* The step in which handleNodeClick, called for an accepted click on n, runs.
ClickActivates(n) ==
  mainPc = "handleNodeClick" /\ pending = <<n>> /\ mainPc' = "idle"

\* The step in which Keyboard accepts Enter or Space (outside the debounce
\* window: it is the only step that restarts the key window) with n selected.
KeyActivates(n) ==
  sinceLastKey >= DebounceWindow /\ sinceLastKey' = 0 /\ selectedNode' = n

\* C1: between public operations 0 <= scrollOffset <= max(0, N - canvasHeight),
\* N being the number of nodes visible under the current expansion flags.
C1_ScrollOffsetInRange ==
  HostIdle => /\ 0 <= scrollOffset
              /\ scrollOffset <= Max(0, VisibleCount - canvasHeight)

\* C2: between public operations the cached visibleNodes is the pre-order
\* walk of the forest that descends into exactly the expanded nodes.
C2_CacheIsPreorderWalk ==
  HostIdle => visibleNodes = PreorderWalk(tree, tree.roots, ExpandedState)

\* C3: activating (accepted click, Enter or Space) a node with children flips
\* that node's ExpandedState and changes no other node field; no callback is
\* started.
C3_BranchActivationOnlyFlips ==
  [][\A n \in Nodes :
       ((ClickActivates(n) \/ KeyActivates(n)) /\ tree.children[n] # <<>>)
         => /\ ExpandedState' = [ExpandedState EXCEPT ![n] = ~ExpandedState[n]]
            /\ UNCHANGED << ShowSpinner, SpinnerIndex, callbacks >>]_vars

\* C4: when handleNodeClick returns from activating a leaf with a callback
\* the leaf's ShowSpinner is true, and ShowSpinner does not fall while a
\* callback of an activation of that leaf is still running.
C4_BusyUntilCallbackReturned ==
  [][\A n \in Nodes :
       /\ (ClickActivates(n) /\ IsCallbackLeaf(n)) => ShowSpinner'[n]
       /\ (ShowSpinner[n] /\ ~ShowSpinner'[n]) => callbacks'[n].running = 0]_vars

\* C5: once a leaf's callback has returned (nil or error) its ShowSpinner
\* eventually is false, and it turns true again only by a new activation.
C5_BusyEventuallyCleared ==
  /\ \A n \in Nodes :
       (Running /\ callbacks[n].returned > 0)
          ~> (~Running \/ ~ShowSpinner[n])
  /\ [][\A n \in Nodes :
          (~ShowSpinner[n] /\ ShowSpinner'[n])
             => (ClickActivates(n) \/ KeyActivates(n))]_vars

\* C6: every accepted activation of a leaf with a callback starts exactly
\* one callback task and returns to the host without waiting for it; no
\* other step (a debounced event, an activation of a node with children)
\* starts one.
C6_OneCallbackPerActivation ==
  [][\A n \in Nodes :
       IF (ClickActivates(n) \/ KeyActivates(n)) /\ IsCallbackLeaf(n)
         THEN /\ callbacks'[n].running = callbacks[n].running + 1
              /\ mainPc' = "idle"
         ELSE callbacks'[n].running <= callbacks[n].running]_vars

\* C7: a callback that returns an error is not propagated: the step in which
\* it returns, with an error or without, changes no node field, no widget
\* field and nothing the host sees, and leaves its goroutine on its way to
\* clear the busy flag; that goroutine then clears the flag and the spinner
\* index; and the click handler has returned nil.
C7_CallbackErrorNotPropagated ==
  [][(callbacks' # callbacks \/ mainPc' # mainPc) => \A n \in Nodes :
       /\ callbacks'[n].running < callbacks[n].running
            => /\ callbacks'[n].returned = callbacks[n].returned + 1
               /\ UNCHANGED << nodeVars, viewVars, mainPc, pending, ret >>
       /\ callbacks'[n].returned < callbacks[n].returned
            => /\ ~ShowSpinner'[n]
               /\ SpinnerIndex'[n] = 0
               /\ UNCHANGED << ExpandedState, viewVars, mainPc, pending, ret >>
       /\ ClickActivates(n) => ret' = errorOnly("nil")]_vars

\* A callback of an activated leaf has returned (an error or nil: the
\* goroutine keeps neither) while the leaf is still busy and the host, back
\* from the click that started it with nil, is idle.
C7_Witness ==
  \E n \in Nodes :
    callbacks[n].returned > 0 /\ ShowSpinner[n] /\ HostIdle /\ ret = errorOnly("nil")

\* C8: a Keyboard call that accepts Enter or Space returns to its caller
\* having activated the selected node: a node with children has its flag
\* flipped, a leaf with a callback is busy with its callback started.
C8_EnterActivatesSelected ==
  [][\A n \in Nodes :
       KeyActivates(n)
         => /\ mainPc' = "idle"
            /\ tree.children[n] # <<>>
                 => ExpandedState'[n] = ~ExpandedState[n]
            /\ IsCallbackLeaf(n)
                 => /\ ShowSpinner'[n]
                    /\ callbacks'[n].running = callbacks[n].running + 1]_vars

\* The step in which the spinner task takes a tick while some node is
\* visible or the widget mutex is taken.
TickTaken == spinnerPc = "select" /\ spinnerPc' \notin {"select", "returned"}

\* C9: a tick advances SpinnerIndex of every busy node by one modulo the
\* number of icons, and the tick handler completes and waits for the next
\* tick.
C9_TickAdvancesBusyNodes ==
  [][TickTaken
       => /\ spinnerPc' = "select"
          /\ \A n \in Nodes :
               ShowSpinner[n]
                 => SpinnerIndex'[n] = (SpinnerIndex[n] + 1) % waitingIcons]_vars

\* C10: calling StopSpinnerTicker again does not panic.
C10_StopTwiceDoesNotPanic == mainPc # "panic"

\* C11: once StopSpinnerTicker has closed the stop channel of a widget with a
\* spinner goroutine, that goroutine eventually returns, whatever it was
\* doing; and once it has returned no SpinnerIndex changes by its hand (only
\* the end of an activation goroutine resets one to 0).
C11_StopTerminatesSpinner ==
  /\ (Running /\ stopSpinner = "closed" /\ spinnerPc # "none")
        ~> (~Running \/ spinnerPc = "returned")
  /\ [][spinnerPc = "returned"
         => /\ spinnerPc' = "returned"
            /\ \A n \in Nodes : SpinnerIndex'[n] \in {SpinnerIndex[n], 0}]_vars

\* The selected node's place in the flattened sequence (the reference walk of
\* the current expansion flags): it is its last, or its first, element.
SelectedIsLast ==
  /\ VisibleCount > 0
  /\ selectedNode = PreorderWalk(tree, tree.roots, ExpandedState)[VisibleCount]

SelectedIsFirst ==
  /\ VisibleCount > 0
  /\ selectedNode = PreorderWalk(tree, tree.roots, ExpandedState)[1]

\* C12: Next() with the selected node last in the flattened sequence, and
\* Previous() with it first, change neither selectedNode nor scrollOffset.
C12_NoWrapAtEnds ==
  [][/\ (NextNode /\ SelectedIsLast) => UNCHANGED << selectedNode, scrollOffset >>
     /\ (PreviousNode /\ SelectedIsFirst)
          => UNCHANGED << selectedNode, scrollOffset >>]_vars

\* The selected node's index in the flattened sequence (1-based; 0: absent).
SelectedIndex ==
  getSelectedNodeIndex(PreorderWalk(tree, tree.roots, ExpandedState),
                       selectedNode)

\* C13: with the selected node at index i of the flattened sequence of length
\* n, Next() with i < n-1 selects the node at i+1 and Previous() with i > 0
\* selects the node at i-1 (indices here are the code's plus one).
C13_NextPreviousMoveOneStep ==
  [][/\ (NextNode /\ SelectedIndex >= 1 /\ SelectedIndex < VisibleCount)
          => selectedNode' =
               PreorderWalk(tree, tree.roots, ExpandedState)[SelectedIndex + 1]
     /\ (PreviousNode /\ SelectedIndex > 1)
          => selectedNode' =
               PreorderWalk(tree, tree.roots, ExpandedState)[SelectedIndex - 1]]_vars

\* The step of Keyboard for an arrow key (arrow keys are not debounced).
KeyArrow == Keyboard("ArrowDown") \/ Keyboard("ArrowUp")

\* The selected node after the step is inside the viewport: its index i in
\* the cached sequence the handlers move in (the code's i, counted from 0)
\* satisfies scrollOffset <= i < scrollOffset + canvasHeight.
SelectedInViewAfter ==
  LET i == getSelectedNodeIndex(visibleNodes', selectedNode') - 1
  IN scrollOffset' <= i /\ i < scrollOffset' + canvasHeight'

\* C14: after Next(), Previous() or an arrow key has moved the selection on a
\* canvas of height >= 1, the selected index lies in
\* [scrollOffset, scrollOffset + canvasHeight), for every prior scroll
\* position.
C14_SelectionScrolledIntoView ==
  [][((NextNode \/ PreviousNode \/ KeyArrow)
        /\ selectedNode' # selectedNode /\ canvasHeight >= 1)
       => SelectedInViewAfter]_vars

\* C15: Select() returns the selected node's label and no error when a node
\* is selected, the empty string and the "no option selected" error when none
\* is, and changes nothing else.
C15_SelectReturnsLabelOrError ==
  [][Select =>
       /\ selectedNode # NoNode => ret' = << Label(selectedNode), "nil" >>
       /\ selectedNode = NoNode => ret' = << <<>>, "no option selected" >>
       /\ UNCHANGED << config, tabVars, nodeVars, nodeMu, tvMu, viewVars, clockVars,
                       mainPc, pending, spinnerVars, callbacks >>]_vars

\* Select() has returned its error on a widget with nothing selected.
C15_Witness ==
  selectedNode = NoNode /\ HostIdle /\ ret = << <<>>, "no option selected" >>

\* C16: a mouse event with button "release" changes no selection, no scroll
\* offset, no expanded or busy flag, no debounce timestamp, and starts no
\* callback.
C16_ReleaseChangesNothing ==
  [][MouseRelease =>
       UNCHANGED << selectedNode, scrollOffset, visibleNodes, ExpandedState,
                    ShowSpinner, SpinnerIndex, sinceLastClick, sinceLastKey,
                    callbacks, mainPc, pending >>]_vars

\* The host is back from an accepted press on a leaf whose callback is still
\* running, inside the debounce window: the state in which the release of
\* that click arrives, and the state it leaves.
C16_Witness ==
  /\ HostIdle
  /\ sinceLastClick < DebounceWindow
  /\ ret = errorOnly("nil")
  /\ \E n \in Nodes : ShowSpinner[n] /\ callbacks[n].running > 0

\* A step of Mouse with ButtonLeft, at any position.  (The first three
\* conjuncts follow from MouseLeft; they are tested first because they
\* are cheap.)
LeftPress ==
  /\ HostIdle
  /\ UNCHANGED << tvMu, nodeMu, canvasHeight, sinceLastKey, spinnerVars,
                  visibleNodes >>
  /\ \E x \in 0..(MaxCanvasWidth - 1), y \in 0..(MaxCanvasHeight - 1) :
        MouseLeft(x, y)

\* C17: a left-press less than 100 ms after the last accepted one changes no
\* selection, no expanded or busy flag, starts no callback and leaves the
\* debounce timestamp where it was; a left-press 100 ms or more after it, and
\* the first one ever, is accepted: it restarts the window (and goes on to
\* the hit test).  Either holds of the step, or the step is no left-press.
C17_LeftPressDebounce ==
  /\ sinceLastClick >= DebounceWindow
  /\ [][\/ IF sinceLastClick < DebounceWindow
              THEN UNCHANGED << selectedNode, scrollOffset, ExpandedState,
                                ShowSpinner, SpinnerIndex, callbacks,
                                sinceLastClick, mainPc, pending >>
              ELSE sinceLastClick' = 0
        \/ ~LeftPress]_vars

\* Half a window after an accepted press on a leaf, whose callback still
\* runs, the host is idle: a press arriving now is suppressed and, leaving
\* the timestamp alone, leaves this very state.
C17_Witness ==
  /\ HostIdle
  /\ 0 < sinceLastClick /\ sinceLastClick < DebounceWindow
  /\ ret = errorOnly("nil")
  /\ \E n \in Nodes : ShowSpinner[n] /\ callbacks[n].running > 0

\* The node a press at (x, y) hits by the rule of the hit test applied to
\* the sequence seq: row y + scrollOffset must be an index of seq, and x must
\* lie in [indentX, indentX + W), indentX being level * indentation and W the
\* width of "icon + space + label", truncated to canvasWidth - indentX when
\* truncation is on.  NoNode: no hit.
HitAt(x, y, seq) ==
  LET idx == y + scrollOffset
  IN IF idx < 0 \/ idx >= Len(seq) THEN NoNode
     ELSE LET node    == seq[idx + 1]
              indentX == Level(tree, node) * DefaultIndentation
              text    == << getNodePrefix(node), " " >> \o Label(node)
              W       == IF truncate /\ StringWidth(text) > canvasWidth - indentX
                           THEN StringWidth(truncateString(text, canvasWidth - indentX))
                           ELSE StringWidth(text)
          IN IF indentX <= x /\ x < indentX + W THEN node ELSE NoNode

\* What an accepted press at (x, y) does when it follows the hit test over
\* the flattened sequence: on a hit the node is selected and handed to
\* handleNodeClick; otherwise nothing is selected or activated.
PressHitsFlattened(x, y) ==
  LET hit == HitAt(x, y, PreorderWalk(tree, tree.roots, ExpandedState))
  IN /\ UNCHANGED << nodeVars, callbacks >>
     /\ IF hit # NoNode
          THEN /\ selectedNode' = hit
               /\ mainPc' = "handleNodeClick"
               /\ pending' = << hit >>
          ELSE UNCHANGED << selectedNode, mainPc, pending >>

\* C18: an accepted left-press at (x, y) selects and activates exactly the
\* node that the hit test over the flattened sequence gives, and nothing when
\* it gives none.  (Either that holds of the step, or the step is no accepted
\* left-press at (x, y).)
C18_ClickHitTest ==
  [][(HostIdle /\ sinceLastClick >= DebounceWindow /\ sinceLastClick' = 0)
       => \A x \in 0..(MaxCanvasWidth - 1), y \in 0..(MaxCanvasHeight - 1) :
            PressHitsFlattened(x, y) \/ ~MouseLeft(x, y)]_vars

\* What every wheel step leaves alone, besides returning nil (it follows from
\* MouseWheelUp and from MouseWheelDown; it is tested first because it is
\* cheap).
WheelFrame ==
  /\ HostIdle
  /\ ret' = errorOnly("nil")
  /\ UNCHANGED << canvasHeight, canvasWidth, clockVars, callbacks, mainPc,
                  pending, tvMu, nodeMu, spinnerVars, ShowSpinner,
                  SpinnerIndex >>

C20_OtherKeysChangeNothing ==
  [][Keyboard("Other") =>
       UNCHANGED << selectedNode, scrollOffset, ExpandedState, ShowSpinner,
                    SpinnerIndex, sinceLastClick, sinceLastKey >>]_vars

\* A step that leaves alone what Draw leaves alone.
DrawFrame ==
  /\ HostIdle
  /\ UNCHANGED << nodeVars, nodeMu, tvMu, selectedNode, clockVars, mainPc,
                  pending, spinnerVars, callbacks >>
  /\ << canvasWidth', canvasHeight' >> \in AllCanvasSizes

\* The step is Draw on the canvas whose size it has stored.
DrawStep == DrawFrame /\ Draw(canvasWidth', canvasHeight')

\* C21: Draw on a canvas of width or height <= 0 returns "canvas too small"
\* and issues neither Clear nor SetCell; every Draw on a canvas of positive
\* size, one that follows such a failure included, returns nil and leaves
\* scrollOffset within 0..max(0, N - canvasHeight).
C21_EmptyCanvasRefused ==
  [][DrawStep =>
       IF canvasWidth' <= 0 \/ canvasHeight' <= 0
         THEN /\ ret' = errorOnly("canvas too small")
              /\ ~ClearCalled'
              /\ SetCellPoints' = {}
         ELSE /\ ret' = errorOnly("nil")
              /\ ClearCalled'
              /\ 0 <= scrollOffset'
              /\ scrollOffset' <= Max(0, VisibleCount - canvasHeight')]_vars

\* Draw has just refused an empty canvas for a forest with rows to draw.
C21_Witness ==
  /\ HostIdle
  /\ ret = errorOnly("canvas too small")
  /\ canvasWidth <= 0
  /\ visibleNodes # <<>>
  /\ ~ClearCalled

\* C22: New leaves every root expanded, the first root (the head of the
\* flattened sequence) selected and scrollOffset at 0; over an empty forest
\* it leaves nothing selected, and Select then returns the "no option
\* selected" error.
C22_StateAfterNew ==
  /\ tree.roots # <<>>
       => /\ \A i \in 1..Len(tree.roots) : ExpandedState[tree.roots[i]]
          /\ selectedNode = tree.roots[1]
          /\ selectedNode = PreorderWalk(tree, tree.roots, ExpandedState)[1]
  /\ tree.roots = <<>> => selectedNode = NoNode
  /\ scrollOffset = 0
  /\ [][(tree.roots = <<>> /\ Select)
          => ret' = << <<>>, "no option selected" >>]_vars

\* Select has been called on the widget New built over the empty forest.
C22_Witness ==
  /\ tree.roots = <<>>
  /\ ExpandedState = InitExpanded(tree)
  /\ scrollOffset = 0
  /\ ret[2] = "no option selected"

\* C23: while a leaf's callback is running the host's calls run to
\* completion: neither tv.mu nor a node's mutex is held against them, by the
\* activation goroutine or by anyone else who would never release it.
C23_HostRunsWhileCallbackRuns ==
  (\E n \in Nodes : callbacks[n].running > 0)
    => /\ tvMu = "free"
       /\ \A m \in Nodes : nodeMu[m] = "free"

\* mu is held by the task when it reaches the i-th element of ops.
heldAt(ops, i, mu) ==
  Cardinality({j \in 1..(i - 1) : ops[j] = <<"Lock", mu>>})
    > Cardinality({j \in 1..(i - 1) : ops[j] = <<"Unlock", mu>>})

\* Every access of ops to one of the fields is made with mu held.
accessesUnder(ops, mu, fields) ==
  \A i \in 1..Len(ops) :
     (ops[i][1] \in {"read", "write"} /\ ops[i][2] \in fields)
       => heldAt(ops, i, mu)

\* C24: the accesses to a node's ShowSpinner and SpinnerIndex made by an
\* activation (SetShowSpinner(true) when handleNodeClick activates a leaf
\* with a callback, SetShowSpinner(false) when its goroutine finishes) and
\* by the spinner's tick are all made with that node's mutex held.
C24_SpinnerFieldsUnderNodeMutex ==
  [][\A n \in Nodes :
       /\ (ClickActivates(n) /\ IsCallbackLeaf(n))
            => accessesUnder(SetShowSpinner(TRUE), "node.mu",
                             {"ShowSpinner", "SpinnerIndex"})
       /\ callbacks'[n].returned < callbacks[n].returned
            => accessesUnder(SetShowSpinner(FALSE), "node.mu",
                             {"ShowSpinner", "SpinnerIndex"})
       /\ (nodeMu[n] = "free" /\ nodeMu'[n] = "spinner")
            => accessesUnder(runSpinnerBody(ShowSpinner[n]), "node.mu",
                             {"ShowSpinner", "SpinnerIndex"})]_vars

WidgetFields == {"scrollOffset", "selectedNode", "visibleNodes"}

\* C25: every access to scrollOffset, selectedNode and the cached
\* visibleNodes made by Mouse (handleMouseClick and findNodeByClick
\* included), Keyboard, Next, Previous, Select, Draw and the spinner's tick
\* is made with tv.mu held by the acting task.
C25_WidgetStateUnderTvMu ==
  /\ accessesUnder(KeyboardAccesses, "tv.mu", WidgetFields)
  /\ accessesUnder(NextAccesses, "tv.mu", WidgetFields)
  /\ accessesUnder(SelectAccesses, "tv.mu", WidgetFields)
  /\ accessesUnder(DrawAccesses, "tv.mu", WidgetFields)
  /\ accessesUnder(MouseWheelAccesses, "tv.mu", WidgetFields)
  /\ accessesUnder(runSpinnerAccesses, "tv.mu", WidgetFields)
  /\ [][(HostIdle /\ sinceLastClick >= DebounceWindow /\ sinceLastClick' = 0)
          => accessesUnder(MouseLeftAccesses(mainPc' = "handleNodeClick"),
                           "tv.mu", WidgetFields)]_vars

RECURSIVE Shown(_)
Shown(n) ==
  \/ \E i \in 1..Len(tree.roots) : tree.roots[i] = n
  \/ LET p == Parent(tree, n)
     IN p # NoNode /\ ExpandedState[p] /\ Shown(p)

\* C27: for every forest and every assignment of the expansion flags,
\* getVisibleNodesList and the traversal of updateVisibleNodes produce the
\* pre-order walk that descends into exactly the expanded nodes, and
\* calculateTotalHeight is its length: the number of shown nodes.
C27_FlatteningsAgree ==
  LET walk == PreorderWalk(tree, tree.roots, ExpandedState)
  IN /\ getVisibleNodesList(tree, ExpandedState) = walk
     /\ allVisible(tree, tree.roots, ExpandedState) = walk
     /\ calculateTotalHeight(tree, ExpandedState) = Len(walk)
     /\ { walk[i] : i \in 1..Len(walk) } = { n \in Nodes : Shown(n) }
     /\ Len(walk) = Cardinality({ n \in Nodes : Shown(n) })

\* updateVisibleNodes has flattened a forest with an expanded inner branch
\* and a collapsed root.
C27_Witness ==
  /\ visibleNodes = PreorderWalk(tree, tree.roots, ExpandedState)
  /\ totalContentHeight = Len(visibleNodes)
  /\ Len(visibleNodes) >= 4
  /\ \E n \in Nodes : Parent(tree, n) # NoNode /\ tree.children[n] # <<>>
                       /\ ExpandedState[n] /\ Shown(n)
  /\ \E i \in 1..Len(tree.roots) :
        tree.children[tree.roots[i]] # <<>> /\ ~ExpandedState[tree.roots[i]]

\* a is a proper ancestor of n.
RECURSIVE IsAncestor(_, _)
IsAncestor(a, n) ==
  LET p == Parent(tree, n)
  IN p # NoNode /\ (p = a \/ IsAncestor(a, p))

\* The flattened sequence once node n has been activated `times` times, each
\* activation toggling its flag as handleNodeClick does.
RECURSIVE FlagsAfterActivations(_, _, _)
FlagsAfterActivations(exp, n, times) ==
  IF times = 0 THEN exp
  ELSE FlagsAfterActivations(toggleExpanded(exp, n), n, times - 1)

\* C28: activating a node with children twice, re-flattening after each
\* activation, restores the flattened sequence and every expansion flag; one
\* activation of an expanded node removes from the sequence exactly the
\* node's visible descendants, and changes no flag but the node's own.  A
\* step that writes a flag and a step of updateVisibleNodes do just that.
C28_CollapseExpandRoundTrip ==
  /\ [](\A n \in Nodes :
          tree.children[n] # <<>> =>
            LET exp0 == ExpandedState
                exp1 == FlagsAfterActivations(exp0, n, 1)
                exp2 == FlagsAfterActivations(exp0, n, 2)
                seq0 == allVisible(tree, tree.roots, exp0)
                seq1 == allVisible(tree, tree.roots, exp1)
                seq2 == allVisible(tree, tree.roots, exp2)
                keep(m) == ~IsAncestor(n, m)
            IN /\ exp2 = exp0
               /\ seq2 = seq0
               /\ \A m \in Nodes \ {n} : exp1[m] = exp0[m]
               /\ exp0[n] => seq1 = SelectSeq(seq0, keep)
               /\ ~exp0[n] => seq0 = SelectSeq(seq1, keep))
  /\ [][/\ visibleNodes' # visibleNodes
           => /\ visibleNodes' = allVisible(tree, tree.roots, ExpandedState)
              /\ totalContentHeight' = Len(visibleNodes')
              /\ ExpandedState' = ExpandedState
        /\ \A n \in Nodes :
             ExpandedState'[n] # ExpandedState[n] =>
               /\ tree.children[n] # <<>>
               /\ ExpandedState' = FlagsAfterActivations(ExpandedState, n, 1)
               /\ visibleNodes' = visibleNodes]_vars

\* The root with three children has been collapsed and the sequence
\* re-flattened: one row is left, and one more activation brings back four.
C28_Witness ==
  /\ tree.roots = <<1>>
  /\ Len(tree.children[1]) = 3
  /\ ~ExpandedState[1]
  /\ visibleNodes = <<1>>
  /\ totalContentHeight = 1
  /\ Len(allVisible(tree, tree.roots,
                    FlagsAfterActivations(ExpandedState, 1, 1))) = 4

\* C29: a step of updateVisibleNodes over N visible nodes sets scrollOffset
\* to min(max(s, 0), max(0, N - canvasHeight)) for every integer s it finds
\* there, negative or too large; the result is a fixed point of the clamp,
\* and an s already in range is left as it is.
C29_ClampInUpdate ==
  [][updateVisibleNodes =>
       LET N    == Len(visibleNodes')
           high == Max(0, N - canvasHeight)
       IN /\ scrollOffset' = Min(Max(scrollOffset, 0), high)
          /\ clampInUpdate(scrollOffset', N, canvasHeight) = scrollOffset'
          /\ (0 <= scrollOffset /\ scrollOffset <= high)
               => scrollOffset' = scrollOffset]_vars

\* C30: a Draw on a canvas of positive size slices the flattened sequence at
\* [scrollOffset, min(scrollOffset + canvasHeight, N)) with
\* 0 <= start <= end <= N, and drawNode's row k is element scrollOffset + k
\* of the sequence, whatever steps came before.
C30_DrawRendersVisibleSlice ==
  [][(DrawStep /\ canvasWidth' > 0 /\ canvasHeight' > 0) =>
       LET flat == PreorderWalk(tree, tree.roots, ExpandedState)
           N    == Len(flat)
       IN /\ visibleNodes' = flat
          /\ 0 <= start' /\ start' <= end' /\ end' <= N
          /\ start' = scrollOffset'
          /\ end' = Min(scrollOffset' + canvasHeight', N)
          /\ Len(nodesToDraw') = end' - start'
          /\ \A k \in 0..(Len(nodesToDraw') - 1) :
                nodesToDraw'[k + 1] = flat[scrollOffset' + k + 1]]_vars

\* Draw has rendered a window that begins below the first visible node and
\* ends above the last one.
C30_Witness ==
  /\ HostIdle
  /\ ret = errorOnly("nil")
  /\ canvasWidth > 0
  /\ canvasHeight > 0
  /\ visibleNodes = PreorderWalk(tree, tree.roots, ExpandedState)
  /\ start > 0
  /\ end < Len(visibleNodes)
  /\ Len(nodesToDraw) = canvasHeight
  /\ nodesToDraw[1] = visibleNodes[scrollOffset + 1]

\* The label drawNode builds for node n before truncation, and the width
\* left of the node's indentation.
fullLabel(n) == <<getNodePrefix(n), " ">> \o Label(n)

availableWidth(n) == canvasWidth - Level(tree, n) * DefaultIndentation

\* C31: truncateString(s, w) is s when s fits in w; otherwise it ends with
\* the ellipsis and is at most w wide, for every w, zero and negative
\* included.  Stated for every label drawNode truncates in a Draw with
\* truncation on.
C31_TruncateStringFits ==
  (truncate /\ ClearCalled) =>
    \A k \in 1..Len(nodesToDraw) :
      LET s == fullLabel(nodesToDraw[k])
          w == availableWidth(nodesToDraw[k])
          r == truncateString(s, w)
      IN IF StringWidth(s) <= w
           THEN r = s
           ELSE /\ r # <<>>
                /\ r[Len(r)] = Ellipsis
                /\ StringWidth(r) <= w

\* The nodes New has reached: the roots and every node with a parent.
InForest(n) ==
  \/ \E i \in 1..Len(tree.roots) : tree.roots[i] = n
  \/ Parent(tree, n) # NoNode

\* The labels of the nodes of one list of siblings are pairwise distinct.
DistinctLabels(list) ==
  \A i, j \in 1..Len(list) : i # j => Label(list[i]) # Label(list[j])

SiblingLabelsDistinct ==
  /\ DistinctLabels(tree.roots)
  /\ \A p \in Nodes : DistinctLabels(tree.children[p])

\* The number of ancestors of n.
Depth(n) == Cardinality({ a \in Nodes : IsAncestor(a, n) })

\* C32: after New has attached a forest whose sibling labels (root labels
\* included) are pairwise distinct, the IDs of its nodes are pairwise
\* distinct, whatever the labels contain; each ID is the parent's ID, "/"
\* and the label (the label alone for a root), each Level is the depth and
\* each Parent is the node that lists the node among its children.
C32_NodeIDsDistinct ==
  SiblingLabelsDistinct =>
    /\ \A a, b \in Nodes :
         (InForest(a) /\ InForest(b) /\ a # b) => tree.ID[a] # tree.ID[b]
    /\ \A n \in Nodes :
         InForest(n) =>
           LET p == Parent(tree, n)
           IN /\ tree.ID[n] = IF p = NoNode THEN Label(n)
                              ELSE tree.ID[p] \o <<"/">> \o Label(n)
              /\ Level(tree, n) = Depth(n)
              /\ p # NoNode <=> \E q \in Nodes : \E i \in 1..Len(tree.children[q]) :
                                   tree.children[q][i] = n /\ q = p

\* C39: in a forest with pairwise distinct sibling labels, Next() with the
\* selection on element i of the flattened sequence, i not the last, selects
\* element i+1: n-1 calls from the first element visit every visible node
\* once, in order, and end on the last; the selection is never held back by
\* an earlier node with the selected node's ID.
C39_NextWalksFlattenedSequence ==
  [][(/\ NextNode
      /\ SiblingLabelsDistinct
      /\ visibleNodes = PreorderWalk(tree, tree.roots, ExpandedState))
       => \A i \in 1..(Len(visibleNodes) - 1) :
             selectedNode = visibleNodes[i]
               => selectedNode' = visibleNodes[i + 1]]_vars

\* The index search on the cached sequence fails (the code's -1).
SelectedNotFound == getSelectedNodeIndex(visibleNodes, selectedNode) = 0

\* C33: when the selected node is not found in the sequence the handlers
\* search, Next(), Previous() and every Keyboard event select the first
\* visible node (an arrow key then moves on from there); when the sequence
\* is empty the selection stays and nothing else changes.
C33_FallbackToFirstVisible ==
  [][(SelectedNotFound /\ HostIdle /\ UNCHANGED << nodeVars, visibleNodes >>)
       => /\ ((NextNode \/ PreviousNode) /\ visibleNodes # <<>>)
               => selectedNode' = visibleNodes[1]
          /\ ((\E key \in Keys : Keyboard(key)) /\ visibleNodes # <<>>)
               => \/ selectedNode' = visibleNodes[1]
                  \/ /\ Keyboard("ArrowDown")
                     /\ Len(visibleNodes) > 1
                     /\ selectedNode' = visibleNodes[2]
          /\ ((NextNode \/ PreviousNode \/ \E key \in Keys : Keyboard(key))
                /\ visibleNodes = <<>>)
               => UNCHANGED << selectedNode, scrollOffset, sinceLastKey,
                               mainPc, tvMu >>]_vars

\* The step accepts an activation of node n (a left press that hit it, or
\* Enter/Space on it), or is the handleNodeClick that the activation entered.
ActivationStep(n) ==
  \/ HostIdle /\ mainPc' = "handleNodeClick" /\ pending' = <<n>>
  \/ mainPc = "handleNodeClick" /\ pending = <<n>> /\ mainPc' = "idle"

\* C34: activating a node without children changes no ExpandedState, neither
\* the flattened sequence nor its cache, and not scrollOffset; without a
\* callback it also changes no busy flag and starts no task.  The
\* ExpandedState of a node without children has no effect on the flattened
\* sequence.
C34_LeafActivationFrame ==
  /\ [](LET flat == allVisible(tree, tree.roots, ExpandedState)
        IN \A n \in Nodes :
             tree.children[n] = <<>> =>
               allVisible(tree, tree.roots, toggleExpanded(ExpandedState, n))
                 = flat)
  /\ [][mainPc' # mainPc =>
          \A n \in Nodes :
            (tree.children[n] = <<>> /\ ActivationStep(n)) =>
              /\ UNCHANGED << ExpandedState, visibleNodes, scrollOffset,
                              totalContentHeight >>
              /\ n \notin tree.onClick => UNCHANGED << ShowSpinner, callbacks >>]_vars

\* handleNodeClick has returned from a left press on a childless root that
\* has no callback and whose ExpandedState New has set.
C34_Witness ==
  /\ mainPc = "idle"
  /\ sinceLastClick = 0
  /\ ret = errorOnly("nil")
  /\ selectedNode # NoNode
  /\ visibleNodes # <<>>
  /\ selectedNode # visibleNodes[1]
  /\ tree.children[selectedNode] = <<>>
  /\ selectedNode \notin tree.onClick
  /\ ExpandedState[selectedNode]
  /\ \A n \in Nodes : ~ShowSpinner[n]

\* C36: a leaf activated again while an earlier callback of it still runs
\* keeps ShowSpinner set as long as any of its callbacks is running; the
\* return of one callback does not clear the flag under another.
C36_BusyWhileAnyCallbackRuns ==
  \A n \in Nodes : callbacks[n].running > 0 => ShowSpinner[n]

\* A task is inside Lock() of a mutex that it holds itself: the spinner in
\* node.GetShowSpinner with node.mu taken, or the host in handleNodeClick
\* with tv.mu taken by Keyboard.
BlockedOnOwnMutex ==
  \/ spinnerPc = "node.GetShowSpinner" /\ \E n \in Nodes : nodeMu[n] = "spinner"
  \/ mainPc = "handleNodeClick" /\ tvMu = "main"

\* C38: no task blocks in Lock() of a mutex it already holds, and the
\* spinner task gives tv.mu back after every tick, so that the host's next
\* Draw, Next, Previous, Select, Mouse or Keyboard call can take it.
C38_SpinnerReleasesWidgetMutex ==
  /\ []~BlockedOnOwnMutex
  /\ (tvMu = "spinner") ~> (tvMu # "spinner")

\* C37: after a Draw the selected node is an element of the flattened
\* sequence, and Next() or Previous() never move the selection onto a node
\* hidden below a collapsed ancestor, so that Select() never returns the
\* label of a hidden node.
C37_SelectionStaysVisible ==
  [][/\ DrawStep => (selectedNode' = NoNode \/ Shown(selectedNode'))
     /\ ((NextNode \/ PreviousNode) /\ selectedNode' # selectedNode)
          => Shown(selectedNode')
     /\ (selectedNode # NoNode /\ Select) => Shown(selectedNode)]_vars

\* C35: with n >= 1 tabs the active index stays in 0..n-1 and GetActiveTab
\* returns the tab at that index; NextTab goes from i to i+1 and from n-1 to
\* 0, PreviousTab from i to i-1 and from 0 to n-1; without tabs both change
\* nothing; SetActiveTab sets an index in 0..n-1 and ignores every other.
C35_ActiveTabInRange ==
  /\ [](Len(tabs) >= 1 =>
          /\ 0 <= activeIndex
          /\ activeIndex < Len(tabs)
          /\ GetActiveTab \in TabPool
          /\ \E i \in 1..Len(tabs) : i = activeIndex + 1 /\ GetActiveTab = tabs[i])
  /\ [](Len(tabs) = 0 => activeIndex = 0 /\ GetActiveTab = NoTab)
  /\ [][/\ (NextTab /\ Len(tabs) >= 1) =>
             activeIndex' = IF activeIndex = Len(tabs) - 1 THEN 0
                            ELSE activeIndex + 1
        /\ (PreviousTab /\ Len(tabs) >= 1) =>
             activeIndex' = IF activeIndex = 0 THEN Len(tabs) - 1
                            ELSE activeIndex - 1
        /\ ((NextTab \/ PreviousTab) /\ Len(tabs) = 0) => UNCHANGED tabVars
        /\ \A index \in TabIndexInputs :
             SetActiveTab(index) =>
               /\ (0 <= index /\ index <= Len(tabs) - 1) => activeIndex' = index
               /\ (index < 0 \/ index > Len(tabs) - 1) => UNCHANGED tabVars
        /\ \A tab \in TabPool :
             AddTab(tab) => Len(tabs') = Len(tabs) + 1 /\ UNCHANGED activeIndex]_vars

\* With three or more tabs the last one is active: NextTab will wrap to the
\* first, PreviousTab from the first has wrapped to here.
C35_Witness ==
  /\ Len(tabs) >= 3
  /\ activeIndex = Len(tabs) - 1
  /\ GetActiveTab = tabs[Len(tabs)]
  /\ tabs[1] # tabs[Len(tabs)]

====
